---- MODULE Spec2Model ----
(***************************************************************************)
(* ChainGuard dashboard (Next.js front end): the home page, the predict    *)
(* page, the upload page and the transaction page with its graph view.     *)
(*                                                                         *)
(* Risk scores are real numbers in the code.  Here a score is an integer   *)
(* number of grid steps, Scale steps to one risk point, so the score 80 is *)
(* 80 * Scale and the largest grid value below it is 80 * Scale - 1.       *)
(***************************************************************************)
EXTENDS Integers, Sequences, FiniteSets, TLC

VARIABLES
    score,        \* band evaluation: the score handed to the three banding functions
    banded,       \* band evaluation: what each of them returned for it
    id,           \* TxPage: the id route parameter (useParams)
    txData,       \* TxPage: useState txData
    graph,        \* TxPage: useState graph
    loading,      \* TxPage: useState loading
    graphDepth,   \* TxPage: useState graphDepth
    fetches,      \* TxPage: the Promise.all of the fetch effect still in flight
    issued,       \* TxPage: how many times the fetch effect has run
    rejections,   \* TxPage: how many fetches have ended in the catch handler
    G,            \* TxPage: the graphology graph built by the render effect
    txId,             \* PredictPage: useState txId (the input box)
    predictResult,    \* PredictPage: useState result
    predictLoading,   \* PredictPage: useState loading
    predictError,     \* PredictPage: useState error
    predictCalls,     \* PredictPage: the handleSubmit calls waiting for their response
    predictSubmits,   \* PredictPage: how many times handleSubmit has sent a request
    predictDone,      \* PredictPage: how each finished call ended, in order of completion
    topRisk,          \* Home: useState topRisk
    homeLoading,      \* Home: useState loading
    homeError,        \* Home: useState error
    currentPage,      \* Home: useState currentPage
    loadTopPending,   \* Home: loadTop is waiting for its response
    file,             \* UploadPage: useState file (the rows of the chosen CSV, or Null)
    uploadResult,     \* UploadPage: useState result
    uploadLoading,    \* UploadPage: useState loading
    uploadCalls,      \* UploadPage: the uploadCSV calls waiting for their response
    unresolvedRows    \* UploadPage: how many rows of the file answered in result do not resolve

bandVars == <<score, banded>>
txVars == <<id, txData, graph, loading, graphDepth, fetches, issued, rejections, G>>
predictVars == <<txId, predictResult, predictLoading, predictError, predictCalls,
                 predictSubmits, predictDone>>
homeVars == <<topRisk, homeLoading, homeError, currentPage, loadTopPending>>
uploadVars == <<file, uploadResult, uploadLoading, uploadCalls, unresolvedRows>>
vars == <<bandVars, txVars, predictVars, homeVars, uploadVars>>

notTx == <<bandVars, predictVars, homeVars, uploadVars>>
notPredict == <<bandVars, txVars, homeVars, uploadVars>>
notHome == <<bandVars, txVars, predictVars, uploadVars>>
notUpload == <<bandVars, txVars, predictVars, homeVars>>

----------------------------------------------------------------------------
(* Bounds of the model *)

Scale == 2
MaxNodes == 3
MaxEdges == 2
MaxFetches == 4
MaxSubmits == 3
MaxBatch == 2

(* Constants of the program *)

itemsPerPage == 10
TopN == 50

----------------------------------------------------------------------------
(* Risk bands *)

Scores == (0 - 5 * Scale) .. (105 * Scale)

\* riskBand with an exclusive Critical cutoff
riskBandExclusive(s) ==
    IF s > 80 * Scale THEN [label |-> "Critical", color |-> "bg-red-600"]
    ELSE IF s >= 60 * Scale THEN [label |-> "High", color |-> "bg-orange-500"]
    ELSE IF s >= 40 * Scale THEN [label |-> "Medium", color |-> "bg-yellow-500"]
    ELSE [label |-> "Low", color |-> "bg-green-600"]

\* frontend/app/page.tsx, riskBand
riskBand(s) ==
    IF s >= 80 * Scale THEN [label |-> "Critical", color |-> "bg-red-600"]
    ELSE IF s >= 60 * Scale THEN [label |-> "High", color |-> "bg-orange-500"]
    ELSE IF s >= 40 * Scale THEN [label |-> "Medium", color |-> "bg-yellow-500"]
    ELSE [label |-> "Low", color |-> "bg-green-600"]

\* predict page, riskBand
predictRiskBand(s) ==
    IF s >= 80 * Scale THEN [label |-> "Critical", color |-> "bg-red-600"]
    ELSE IF s >= 60 * Scale THEN [label |-> "High", color |-> "bg-orange-500"]
    ELSE IF s >= 40 * Scale THEN [label |-> "Medium", color |-> "bg-yellow-500"]
    ELSE [label |-> "Low", color |-> "bg-green-600"]

\* getNodeColor with a High cutoff of 70
getNodeColorCutoff70(risk, type, isFlagged) ==
    IF type = "center" THEN "#cc00ff"
    ELSE IF isFlagged THEN "#000000"
    ELSE IF risk >= 80 * Scale THEN "#ff0000"
    ELSE IF risk >= 70 * Scale THEN "#ff8c00"
    ELSE IF risk >= 40 * Scale THEN "#ffd700"
    ELSE "#00bfff"

\* transaction page, getNodeColor
getNodeColor(risk, type, isFlagged) ==
    IF type = "center" THEN "#cc00ff"
    ELSE IF isFlagged THEN "#000000"
    ELSE IF risk >= 80 * Scale THEN "#ff0000"
    ELSE IF risk >= 60 * Scale THEN "#ff8c00"
    ELSE IF risk >= 40 * Scale THEN "#ffd700"
    ELSE "#00bfff"

\* n.risk || 0 : a falsy risk (0) is replaced by 0, any other number is kept
OrZero(risk) == IF risk = 0 THEN 0 ELSE risk

\* the band each node colour stands for (comments of getNodeColor)
ColourBand(c) ==
    CASE c = "#ff0000" -> "Critical"
      [] c = "#ff8c00" -> "High"
      [] c = "#ffd700" -> "Medium"
      [] c = "#00bfff" -> "Low"
      [] OTHER -> "none"

NotBanded == [home |-> "none", predict |-> "none", node |-> "none"]

\* the three banding functions applied to one score
EvalBands ==
    /\ banded = NotBanded
    /\ banded' = [home    |-> riskBand(score).label,
                  predict |-> predictRiskBand(score).label,
                  node    |-> getNodeColor(OrZero(score), "neighbor", FALSE)]
    /\ UNCHANGED <<score, txVars, predictVars, homeVars, uploadVars>>

----------------------------------------------------------------------------
(* Graph responses and the sigma render effect of the transaction page *)

Ids == {"a", "b"}
Types == {"center", "neighbor"}
Flags == {"true", "false"}
NodeRisks == {90 * Scale}
Directions == {"outgoing", "incoming", "indirect", "other"}

NodeRecords == [id : Ids, label : {"tx"}, type : Types, risk : NodeRisks, is_flagged : Flags]
EdgeRecords == { e \in [source : Ids, target : Ids, direction : Directions] : e.source # e.target }

SeqsUpTo(S, n) == UNION { [1..k -> S] : k \in 0..n }

GraphResponses ==
    [kind : {"graph"}, nodes : SeqsUpTo(NodeRecords, MaxNodes), edges : SeqsUpTo(EdgeRecords, MaxEdges)]

\* useState(null)
Null == [kind |-> "null"]

\* const nodes = graph?.nodes ?? []
nodesOf(gr) == IF gr.kind = "graph" THEN gr.nodes ELSE <<>>

\* const edges = graph?.edges ?? []
edgesOf(gr) == IF gr.kind = "graph" THEN gr.edges ELSE <<>>

EmptyGraph == [nodes |-> <<>>, edges |-> <<>>, threw |-> FALSE, built |-> FALSE]

hasNode(g, nid) == \E i \in 1..Len(g.nodes) : g.nodes[i].id = nid

hasEdge(g, s, t) == \E i \in 1..Len(g.edges) : g.edges[i].source = s /\ g.edges[i].target = t

getEdgeColor(direction) ==
    IF direction = "outgoing" THEN "#ff6b6b"
    ELSE IF direction = "incoming" THEN "#51cf66"
    ELSE "#888888"

isFlaggedOf(n) == n.is_flagged = "true" \/ n.is_flagged = "1"

\* the attributes G.addNode is given for the node n at position index of the list
NodeAttributes(n, index) ==
    [label       |-> IF isFlaggedOf(n) THEN <<"flag", n.label>> ELSE <<n.label>>,
     size        |-> IF isFlaggedOf(n) THEN 20 ELSE IF n.type = "center" THEN 18 ELSE 10,
     color       |-> getNodeColor(OrZero(n.risk), n.type, isFlaggedOf(n)),
     index       |-> index,
     radius      |-> IF n.type = "center" THEN 0 ELSE 100,
     borderColor |-> IF isFlaggedOf(n) THEN "#ff0000" ELSE "undefined",
     borderSize  |-> IF isFlaggedOf(n) THEN 3 ELSE 0]

\* addNode where a later occurrence of an id replaces the attributes of the node
addNodeLastWins(g, n, index) ==
    IF hasNode(g, n.id)
    THEN [g EXCEPT !.nodes = [k \in 1..Len(@) |->
              IF @[k].id = n.id THEN [id |-> n.id, attributes |-> NodeAttributes(n, index)]
              ELSE @[k]]]
    ELSE [g EXCEPT !.nodes = Append(@, [id |-> n.id, attributes |-> NodeAttributes(n, index)])]

\* one step of nodes.forEach
addNode(g, n, index) ==
    IF hasNode(g, n.id) THEN g
    ELSE [g EXCEPT !.nodes = Append(@, [id |-> n.id, attributes |-> NodeAttributes(n, index)])]

\* the attributes G.addEdge is given for the edge e
EdgeAttributes(e) ==
    [color |-> getEdgeColor(e.direction),
     size  |-> IF e.direction = "indirect" THEN 1 ELSE 2,
     type  |-> "arrow"]

\* addEdge without the hasEdge test
addEdgeUnchecked(g, e) ==
    IF g.threw THEN g
    ELSE IF ~hasNode(g, e.source) \/ ~hasNode(g, e.target) THEN [g EXCEPT !.threw = TRUE]
    ELSE [g EXCEPT !.edges = Append(@, [source |-> e.source, target |-> e.target,
                                        attributes |-> EdgeAttributes(e)])]

\* one step of edges.forEach; graphology's addEdge throws when an endpoint is no
\* node of the graph, which ends the effect
addEdge(g, e) ==
    IF g.threw THEN g
    ELSE IF hasEdge(g, e.source, e.target) THEN g
    ELSE IF ~hasNode(g, e.source) \/ ~hasNode(g, e.target) THEN [g EXCEPT !.threw = TRUE]
    ELSE [g EXCEPT !.edges = Append(@, [source |-> e.source, target |-> e.target,
                                        attributes |-> EdgeAttributes(e)])]

RECURSIVE addNodes(_, _, _)
addNodes(g, nodes, i) ==
    IF i > Len(nodes) THEN g ELSE addNodes(addNode(g, nodes[i], i - 1), nodes, i + 1)

RECURSIVE addEdges(_, _, _)
addEdges(g, edges, i) ==
    IF i > Len(edges) THEN g ELSE addEdges(addEdge(g, edges[i]), edges, i + 1)

\* the graph the render effect builds from a graph response
BuildGraph(gr) ==
    addEdges(addNodes([EmptyGraph EXCEPT !.built = TRUE], nodesOf(gr), 1), edgesOf(gr), 1)

\* which of the three returns of TxPage is on the page
View(ld, txd) ==
    IF ld THEN "loading" ELSE IF txd = Null THEN "notfound" ELSE "record"

\* the sigma-container div is on the page: record view and graph && nodes.length > 0
containerShown(ld, txd, gr) ==
    View(ld, txd) = "record" /\ gr # Null /\ Len(nodesOf(gr)) > 0

\* the graph footer: Showing {nodes.length - 1} connected transaction(s)
footerConnected(gr) == Len(nodesOf(gr)) - 1

\* the graph footer: {edges.length} connection(s)
footerConnections(gr) == Len(edgesOf(gr))

\* the render effect, run for a new value of graph: it returns early without the
\* container (the cleanup of the previous run has killed the old renderer)
renderEffect(ld, txd, gr) ==
    IF gr = Null \/ ~containerShown(ld, txd, gr) THEN EmptyGraph ELSE BuildGraph(gr)

\* the render effect on its own, for a graph response that has just been stored
RenderEffect ==
    /\ ~G.built
    /\ containerShown(loading, txData, graph)
    /\ G' = renderEffect(loading, txData, graph)
    /\ UNCHANGED <<notTx, id, txData, graph, loading, graphDepth, fetches, issued, rejections>>

----------------------------------------------------------------------------
(* The transaction page: state, fetch effect, depth control *)

\* identifiers the page is opened with; the backend resolves those of KnownIds
TxIds == {"t1", "t2", "nf"}
KnownIds == {"t1", "t2", "t3", "t4"}

\* the stored risk score of each known id
riskScoreOf(i) ==
    CASE i = "t1" -> 90 * Scale
      [] i = "t2" -> 65 * Scale
      [] i = "t3" -> 45 * Scale
      [] OTHER -> 10 * Scale

\* the body of a non-OK response: a JSON error object
ErrorObject == [kind |-> "error", detail |-> "Transaction not found"]

\* GET /tx/{id}: the record of a known id, the error object of any other
TxOf(i) ==
    IF i \in KnownIds
    THEN [kind |-> "record", secure_id |-> i, risk_score |-> riskScoreOf(i), alert |-> "High Risk"]
    ELSE ErrorObject

Center(i) == [id |-> i, label |-> "tx", type |-> "center", risk |-> 90 * Scale, is_flagged |-> "false"]
Neighbor(i) == [id |-> i, label |-> "tx", type |-> "neighbor", risk |-> 0, is_flagged |-> "false"]
Edge(s, t, d) == [source |-> s, target |-> t, direction |-> d]

\* GET /graph/{id}?depth=d: the stored neighbourhood of a known id, which grows
\* with the depth; the error object of any other id
GraphOf(i, d) ==
    IF i \notin KnownIds THEN ErrorObject
    ELSE CASE d = 1 -> [kind |-> "graph", nodes |-> <<Center(i), Neighbor("a")>>,
                        edges |-> <<Edge(i, "a", "outgoing")>>]
           [] d = 2 -> [kind |-> "graph", nodes |-> <<Center(i), Neighbor("a"), Neighbor("b")>>,
                        edges |-> <<Edge(i, "a", "outgoing"), Edge("a", "b", "indirect")>>]
           [] OTHER -> [kind |-> "graph", nodes |-> <<Center(i), Neighbor("a"), Neighbor("b")>>,
                        edges |-> <<Edge(i, "a", "outgoing"), Edge("a", "b", "indirect"),
                                    Edge("b", i, "incoming")>>]

\* depth buttons where the last one asks for four hops
DepthButtonsFour == {1, 2, 4}

\* the arguments of the three setGraphDepth calls (1-Hop, 2-Hop, 3-Hop)
DepthButtons == {1, 2, 3}

\* the fetch effect without setLoading(true)
fetchEffectNoLoading(i, d) ==
    /\ issued < MaxFetches
    /\ issued' = issued + 1
    /\ loading' = loading
    /\ fetches' = fetches \cup {[seq |-> issued + 1, id |-> i, depth |-> d]}

\* the fetch effect: if (!id) return; setLoading(true); Promise.all([...])
fetchEffect(i, d) ==
    /\ issued < MaxFetches
    /\ issued' = issued + 1
    /\ loading' = TRUE
    /\ fetches' = fetches \cup {[seq |-> issued + 1, id |-> i, depth |-> d]}

\* depth buttons that stay on the page while it is loading
SetGraphDepthAnyView(d) ==
    /\ d # graphDepth
    /\ graphDepth' = d
    /\ fetchEffect(id, d)
    /\ UNCHANGED <<notTx, id, txData, graph, rejections, G>>

\* a press of a depth button; a press of the selected depth changes no state
SetGraphDepth(d) ==
    /\ View(loading, txData) = "record"
    /\ d # graphDepth
    /\ graphDepth' = d
    /\ fetchEffect(id, d)
    /\ UNCHANGED <<notTx, id, txData, graph, rejections, G>>

\* the route parameter changes while the page is mounted
ChangeId(i) ==
    /\ i # id
    /\ id' = i
    /\ fetchEffect(i, graphDepth)
    /\ UNCHANGED <<notTx, txData, graph, graphDepth, rejections, G>>

\* both requests of a fetch are answered with a JSON body (OK or not):
\* setTxData(tx); setGraph(graphData); then setLoading(false); the render effect
\* runs for the new graph
FetchResolved(f) ==
    /\ f \in fetches
    /\ fetches' = fetches \ {f}
    /\ txData' = TxOf(f.id)
    /\ graph' = GraphOf(f.id, f.depth)
    /\ loading' = FALSE
    /\ G' = renderEffect(FALSE, TxOf(f.id), GraphOf(f.id, f.depth))
    /\ UNCHANGED <<notTx, id, graphDepth, issued, rejections>>

\* two independent requests: the record is stored although the graph failed
FetchRejectedStoresRecord(f) ==
    /\ f \in fetches
    /\ fetches' = fetches \ {f}
    /\ txData' = TxOf(f.id)
    /\ loading' = FALSE
    /\ rejections' = rejections + 1
    /\ UNCHANGED <<notTx, id, graph, graphDepth, issued, G>>

\* a catch handler that also resets the record and the graph
FetchRejectedClears(f) ==
    /\ f \in fetches
    /\ fetches' = fetches \ {f}
    /\ txData' = Null
    /\ graph' = Null
    /\ G' = EmptyGraph
    /\ loading' = FALSE
    /\ rejections' = rejections + 1
    /\ UNCHANGED <<notTx, id, graphDepth, issued>>

\* one of the two requests fails (network error, body that is no JSON):
\* console.error; setLoading(false)
FetchRejected(f) ==
    /\ f \in fetches
    /\ fetches' = fetches \ {f}
    /\ loading' = FALSE
    /\ rejections' = rejections + 1
    /\ UNCHANGED <<notTx, id, txData, graph, graphDepth, issued, G>>

----------------------------------------------------------------------------
(* The predict page *)

\* what can be typed into the input box
PredictInputs == {"", " ", "t1", " t1 ", "nf"}

\* String.prototype.trim on the inputs above
trim(str) ==
    CASE str = " " -> ""
      [] str = " t1 " -> "t1"
      [] OTHER -> str

PredictErrorMessage == "Transaction not found in ML database"

\* onChange of the input box
SetTxId(str) ==
    /\ str # txId
    /\ txId' = str
    /\ UNCHANGED <<notPredict, predictResult, predictLoading, predictError, predictCalls,
                   predictSubmits, predictDone>>

\* handleSubmit up to the await of fetch
handleSubmit ==
    /\ trim(txId) # ""
    /\ predictSubmits < MaxSubmits
    /\ predictSubmits' = predictSubmits + 1
    /\ predictLoading' = TRUE
    /\ predictError' = ""
    /\ predictResult' = Null
    /\ predictCalls' = predictCalls \cup {[seq |-> predictSubmits + 1, id |-> trim(txId)]}
    /\ UNCHANGED <<notPredict, txId, predictDone>>

\* catch { setError(...) } finally { setLoading(false) }
catchSubmit(c, how) ==
    /\ predictCalls' = predictCalls \ {c}
    /\ predictError' = PredictErrorMessage
    /\ predictLoading' = FALSE
    /\ predictDone' = Append(predictDone, [seq |-> c.seq, id |-> c.id, outcome |-> how])
    /\ UNCHANGED <<notPredict, txId, predictResult, predictSubmits>>

\* the response is OK: setResult(data); finally setLoading(false)
SubmitAnsweredOk(c) ==
    /\ c \in predictCalls
    /\ c.id \in KnownIds
    /\ predictCalls' = predictCalls \ {c}
    /\ predictResult' = TxOf(c.id)
    /\ predictLoading' = FALSE
    /\ predictDone' = Append(predictDone, [seq |-> c.seq, id |-> c.id, outcome |-> "ok"])
    /\ UNCHANGED <<notPredict, txId, predictError, predictSubmits>>

\* a not-OK response whose body is stored without the res.ok test
SubmitAnsweredNotOkStored(c) ==
    /\ c \in predictCalls
    /\ c.id \notin KnownIds
    /\ predictCalls' = predictCalls \ {c}
    /\ predictResult' = TxOf(c.id)
    /\ predictLoading' = FALSE
    /\ predictDone' = Append(predictDone, [seq |-> c.seq, id |-> c.id, outcome |-> "notfound"])
    /\ UNCHANGED <<notPredict, txId, predictError, predictSubmits>>

\* the response is not OK: throw new Error("Not found")
SubmitAnsweredNotOk(c) ==
    /\ c \in predictCalls
    /\ c.id \notin KnownIds
    /\ catchSubmit(c, "notfound")

\* fetch or res.json() throws
SubmitFailed(c) ==
    /\ c \in predictCalls
    /\ catchSubmit(c, "failed")

----------------------------------------------------------------------------
(* The home page *)

HomeErrorMessage == "Could not load top risky transactions. Backend running?"

\* the alert stored with a score: the label of its band
alertOf(s) ==
    IF s >= 80 * Scale THEN "Critical"
    ELSE IF s >= 60 * Scale THEN "High"
    ELSE IF s >= 40 * Scale THEN "Medium"
    ELSE "Low"

\* GET /top/50: n rows by risk_score descending, the score dropping by one point
\* every step rows
TopRows(n, step) ==
    [i \in 1..n |-> [secure_id |-> i,
                     risk_score |-> (100 - ((i - 1) \div step)) * Scale,
                     alert |-> alertOf((100 - ((i - 1) \div step)) * Scale)]]

TieSteps == {1, 3}

\* Math.ceil(length / itemsPerPage)
totalPagesOf(rows) == (Len(rows) + itemsPerPage - 1) \div itemsPerPage

totalPages == totalPagesOf(topRisk)

Min(a, b) == IF a < b THEN a ELSE b
Max(a, b) == IF a > b THEN a ELSE b

\* Array.prototype.slice(start, end): a negative index counts from the end
slice(arr, start, end) ==
    LET len == Len(arr)
        from == IF start < 0 THEN Max(len + start, 0) ELSE Min(start, len)
        to == IF end < 0 THEN Max(len + end, 0) ELSE Min(end, len)
    IN  [k \in 1..(to - from) |-> arr[from + k]]

\* startIndex with the page taken as an index from 0
startIndexFromZero(page) == page * itemsPerPage

startIndex(page) == (page - 1) * itemsPerPage

endIndex(page) == startIndex(page) + itemsPerPage

\* currentData for a value of currentPage
currentDataOf(rows, page) == slice(rows, startIndex(page), endIndex(page))

\* the Category cell with High starting at 70
CategoryHighFrom70(row) ==
    IF row.risk_score >= 80 * Scale THEN "Critical"
    ELSE IF row.risk_score >= 70 * Scale THEN "High"
    ELSE IF row.risk_score >= 40 * Scale THEN "Medium"
    ELSE "Low"

\* the Category cell of a table row: riskBand(row.risk_score).label
Category(row) == riskBand(row.risk_score).label

\* the Status cell of a table row: row.alert
Status(row) == row.alert

\* loadTop, response OK: setTopRisk(data); setError(""); finally setLoading(false)
LoadTopOk(n, step) ==
    /\ loadTopPending
    /\ loadTopPending' = FALSE
    /\ topRisk' = TopRows(n, step)
    /\ homeError' = ""
    /\ homeLoading' = FALSE
    /\ UNCHANGED <<notHome, currentPage>>

\* loadTop, response not OK or fetch throws: setError(...); finally setLoading(false)
LoadTopFailed ==
    /\ loadTopPending
    /\ loadTopPending' = FALSE
    /\ homeError' = HomeErrorMessage
    /\ homeLoading' = FALSE
    /\ UNCHANGED <<notHome, topRisk, currentPage>>

\* the pagination controls are on the page
controlsShown == ~homeLoading /\ homeError = "" /\ totalPages > 1

\* goToPage without the Math.min against totalPages
goToPageNoCeiling(page) ==
    /\ currentPage' = Max(1, page)
    /\ UNCHANGED <<notHome, topRisk, homeLoading, homeError, loadTopPending>>

\* goToPage: setCurrentPage(Math.max(1, Math.min(page, totalPages)))
goToPage(page) ==
    /\ currentPage' = Max(1, Min(page, totalPages))
    /\ UNCHANGED <<notHome, topRisk, homeLoading, homeError, loadTopPending>>

First == controlsShown /\ currentPage # 1 /\ goToPage(1)

Previous == controlsShown /\ currentPage # 1 /\ goToPage(currentPage - 1)

NextPage == controlsShown /\ currentPage # totalPages /\ goToPage(currentPage + 1)

Last == controlsShown /\ currentPage # totalPages /\ goToPage(totalPages)

\* what can be typed into the page box
PageBoxValues == {"", "abc", "0", "-1", "2", "2.7", "99"}

\* parseInt on the values above; NaN is [nan |-> TRUE]
parseInt(str) ==
    CASE str = "0" -> [nan |-> FALSE, value |-> 0]
      [] str = "-1" -> [nan |-> FALSE, value |-> 0 - 1]
      [] str = "2" -> [nan |-> FALSE, value |-> 2]
      [] str = "2.7" -> [nan |-> FALSE, value |-> 2]
      [] str = "99" -> [nan |-> FALSE, value |-> 99]
      [] OTHER -> [nan |-> TRUE, value |-> 0]

\* parseInt(e.target.value) || 1
parseIntOr1(str) ==
    IF parseInt(str).nan \/ parseInt(str).value = 0 THEN 1 ELSE parseInt(str).value

\* onChange of the page box
TypePage(str) == controlsShown /\ goToPage(parseIntOr1(str))

----------------------------------------------------------------------------
(* The upload page and the bulk scorer behind POST /upload *)

\* identifiers a CSV row can hold
BatchIds == {"t1", "t3", "t4", "nf"}

\* the CSV files that can be chosen: up to MaxBatch rows
Files == SeqsUpTo(BatchIds, MaxBatch)

\* the counter a resolved row is added to: Critical rows count as high risk
bulkBand(s) ==
    IF s >= 60 * Scale THEN "high" ELSE IF s >= 40 * Scale THEN "medium" ELSE "low"

\* rows of the batch that resolve and fall in the band b
rowsIn(batch, b) ==
    Cardinality({k \in 1..Len(batch) : batch[k] \in KnownIds /\ bulkBand(riskScoreOf(batch[k])) = b})

\* rows of the batch that do not resolve
unresolvedIn(batch) == Cardinality({k \in 1..Len(batch) : batch[k] \notin KnownIds})

\* scoreAll: the answer of POST /upload for a batch
scoreAll(batch) ==
    [kind |-> "bulk", count |-> Len(batch),
     high_risk |-> rowsIn(batch, "high"),
     medium_risk |-> rowsIn(batch, "medium"),
     low_risk |-> rowsIn(batch, "low")]

\* the four result cards
TotalCard(r) == r.count

\* a High Risk card bound to result.count
HighRiskCardOfCount(r) == r.count

HighRiskCard(r) == r.high_risk

MediumCard(r) == r.medium_risk

LowRiskCard(r) == r.low_risk

\* onChange of the file input
SetFile(f) ==
    /\ f # file
    /\ file' = f
    /\ UNCHANGED <<notUpload, uploadResult, uploadLoading, uploadCalls, unresolvedRows>>

\* uploadCSV behind a button that loading does not disable
uploadCSVWhileLoading ==
    /\ file # Null
    /\ uploadLoading' = TRUE
    /\ uploadCalls' = uploadCalls \cup {[file |-> file, no |-> Cardinality(uploadCalls) + 1]}
    /\ UNCHANGED <<notUpload, file, uploadResult, unresolvedRows>>

\* uploadCSV up to the await of fetch; the button is disabled while !file || loading.
\* A request in flight holds the file sent and its number among those in flight.
uploadCSV ==
    /\ file # Null
    /\ ~uploadLoading
    /\ uploadLoading' = TRUE
    /\ uploadCalls' = uploadCalls \cup {[file |-> file, no |-> Cardinality(uploadCalls) + 1]}
    /\ UNCHANGED <<notUpload, file, uploadResult, unresolvedRows>>

\* the response is OK: setResult(data); setLoading(false)
UploadAnswered(c) ==
    /\ c \in uploadCalls
    /\ uploadCalls' = uploadCalls \ {c}
    /\ uploadResult' = scoreAll(c.file.rows)
    /\ unresolvedRows' = unresolvedIn(c.file.rows)
    /\ uploadLoading' = FALSE
    /\ UNCHANGED <<notUpload, file>>

\* the response is not OK and its body is JSON: setResult(data); setLoading(false)
UploadAnsweredError(c) ==
    /\ c \in uploadCalls
    /\ uploadCalls' = uploadCalls \ {c}
    /\ uploadResult' = ErrorObject
    /\ unresolvedRows' = unresolvedIn(c.file.rows)
    /\ uploadLoading' = FALSE
    /\ UNCHANGED <<notUpload, file>>

\* fetch or res.json() throws: uploadCSV ends there, nothing catches
UploadThrew(c) ==
    /\ c \in uploadCalls
    /\ uploadCalls' = uploadCalls \ {c}
    /\ UNCHANGED <<notUpload, file, uploadResult, uploadLoading, unresolvedRows>>

----------------------------------------------------------------------------
(* Specifications *)

\* the transaction page before it is opened
TxIdle ==
    /\ id = "t1"
    /\ txData = Null
    /\ graph = Null
    /\ loading = TRUE
    /\ graphDepth = 1
    /\ fetches = {}
    /\ issued = 0
    /\ rejections = 0
    /\ G = EmptyGraph

BandsIdle ==
    /\ score = 0
    /\ banded = NotBanded

\* the predict page as mounted
PredictIdle ==
    /\ txId = ""
    /\ predictResult = Null
    /\ predictLoading = FALSE
    /\ predictError = ""
    /\ predictCalls = {}
    /\ predictSubmits = 0
    /\ predictDone = <<>>

\* the home page as mounted: the useState values and loadTop under way
HomeIdle ==
    /\ topRisk = <<>>
    /\ homeLoading = TRUE
    /\ homeError = ""
    /\ currentPage = 1
    /\ loadTopPending = TRUE

\* the upload page as mounted
UploadIdle ==
    /\ file = Null
    /\ uploadResult = Null
    /\ uploadLoading = FALSE
    /\ uploadCalls = {}
    /\ unresolvedRows = 0

InitBands ==
    /\ score \in Scores
    /\ banded = NotBanded
    /\ TxIdle
    /\ PredictIdle
    /\ HomeIdle
    /\ UploadIdle

NextBands == EvalBands

SpecBands == InitBands /\ [][NextBands]_vars

\* the transaction page right after a fetch stored a graph response
InitRender ==
    /\ BandsIdle
    /\ PredictIdle
    /\ HomeIdle
    /\ UploadIdle
    /\ id = "t1"
    /\ txData = TxOf("t1")
    /\ graph \in GraphResponses
    /\ loading = FALSE
    /\ graphDepth = 1
    /\ fetches = {}
    /\ issued = 1
    /\ rejections = 0
    /\ G = EmptyGraph

NextRender == RenderEffect

SpecRender == InitRender /\ [][NextRender]_vars

\* the transaction page after mounting: the state of the useState calls and the
\* first run of the fetch effect
InitTx ==
    /\ BandsIdle
    /\ PredictIdle
    /\ HomeIdle
    /\ UploadIdle
    /\ id \in TxIds
    /\ txData = Null
    /\ graph = Null
    /\ loading = TRUE
    /\ graphDepth = 1
    /\ fetches = {[seq |-> 1, id |-> id, depth |-> 1]}
    /\ issued = 1
    /\ rejections = 0
    /\ G = EmptyGraph

NextTx ==
    \/ \E d \in DepthButtons : SetGraphDepth(d)
    \/ \E i \in TxIds : ChangeId(i)
    \/ \E f \in fetches : FetchResolved(f)
    \/ \E f \in fetches : FetchRejected(f)

SpecTx == InitTx /\ [][NextTx]_vars

\* The transaction page opened once for an id that stays the same: depth
\* buttons and response arrivals only.
NextTxDepth ==
    \/ \E d \in DepthButtons : SetGraphDepth(d)
    \/ \E f \in fetches : FetchResolved(f)
    \/ \E f \in fetches : FetchRejected(f)

SpecTxDepth == InitTx /\ [][NextTxDepth]_vars

InitPredict ==
    /\ BandsIdle
    /\ TxIdle
    /\ PredictIdle
    /\ HomeIdle
    /\ UploadIdle

NextPredict ==
    \/ \E str \in PredictInputs : SetTxId(str)
    \/ handleSubmit
    \/ \E c \in predictCalls : SubmitAnsweredOk(c)
    \/ \E c \in predictCalls : SubmitAnsweredNotOk(c)
    \/ \E c \in predictCalls : SubmitFailed(c)

SpecPredict == InitPredict /\ [][NextPredict]_vars

InitHome ==
    /\ BandsIdle
    /\ TxIdle
    /\ PredictIdle
    /\ HomeIdle
    /\ UploadIdle

NextHome ==
    \/ \E n \in 0..TopN, step \in TieSteps : LoadTopOk(n, step)
    \/ LoadTopFailed
    \/ First
    \/ Previous
    \/ NextPage
    \/ Last
    \/ \E str \in PageBoxValues : TypePage(str)

SpecHome == InitHome /\ [][NextHome]_vars

InitUpload ==
    /\ BandsIdle
    /\ TxIdle
    /\ PredictIdle
    /\ HomeIdle
    /\ UploadIdle

NextUpload ==
    \/ \E f \in {Null} \cup {[kind |-> "file", rows |-> r] : r \in Files} : SetFile(f)
    \/ uploadCSV
    \/ \E c \in uploadCalls : UploadAnswered(c)
    \/ \E c \in uploadCalls : UploadAnsweredError(c)
    \/ \E c \in uploadCalls : UploadThrew(c)

SpecUpload == InitUpload /\ [][NextUpload]_vars

----------------------------------------------------------------------------
(* Properties *)

BandLabels == {"Low", "Medium", "High", "Critical"}

\* C1: riskBand returns one of the four labels, with inclusive lower bounds:
\* s >= 80 Critical, 60 <= s < 80 High, 40 <= s < 60 Medium, s < 40 Low.
C1_BandThresholds ==
    banded # NotBanded =>
        /\ banded.home \in BandLabels
        /\ (banded.home = "Critical") = (score >= 80 * Scale)
        /\ (banded.home = "High") = (score >= 60 * Scale /\ score < 80 * Scale)
        /\ (banded.home = "Medium") = (score >= 40 * Scale /\ score < 60 * Scale)
        /\ (banded.home = "Low") = (score < 40 * Scale)

\* the score exactly 80 has been banded Critical
C1_Witness == banded.home = "Critical" /\ score = 80 * Scale

\* C2: the home page, the predict page and the colouring of a non-center,
\* non-flagged graph node place the same score in the same band.
C2_SameBandEverywhere ==
    banded # NotBanded =>
        /\ banded.home = banded.predict
        /\ banded.predict = ColourBand(banded.node)

\* a score between 60 and 70 has been banded High by all three
C2_Witness ==
    /\ score = 65 * Scale
    /\ banded.home = "High"
    /\ banded.node = "#ff8c00"

\* the graph response repeats a node id
RepeatsNode(gr) ==
    \E i, j \in 1..Len(nodesOf(gr)) : i < j /\ nodesOf(gr)[i].id = nodesOf(gr)[j].id

\* the graph response repeats a (source, target) pair
RepeatsEdge(gr) ==
    \E i, j \in 1..Len(edgesOf(gr)) :
        /\ i < j
        /\ edgesOf(gr)[i].source = edgesOf(gr)[j].source
        /\ edgesOf(gr)[i].target = edgesOf(gr)[j].target

\* C3: the graph built for rendering holds no two nodes with the same id and no
\* two edges with the same (source, target) pair.
C3_NoDuplicates ==
    /\ \A i, j \in 1..Len(G.nodes) : i # j => G.nodes[i].id # G.nodes[j].id
    /\ \A i, j \in 1..Len(G.edges) :
          i # j => ~(G.edges[i].source = G.edges[j].source /\ G.edges[i].target = G.edges[j].target)

\* a response that repeats a node and an edge has been built, edge included
C3_Witness ==
    /\ G.built
    /\ RepeatsNode(graph)
    /\ RepeatsEdge(graph)
    /\ Len(G.nodes) = 2
    /\ Len(G.edges) = 1

\* C4: the selected graph depth is 1, 2 or 3, and so is the depth of every
\* graph request in flight.
C4_DepthInRange ==
    /\ graphDepth \in 1..3
    /\ \A f \in fetches : f.depth \in 1..3

\* the 3-Hop graph of another id than the first has been requested
C4_Witness ==
    /\ graphDepth = 3
    /\ \E f \in fetches : f.depth = 3 /\ f.id = id /\ f.seq > 2

\* C5: every rendered edge has the style of one direction label: outgoing
\* colour or incoming colour with the direct size, or the indirect colour with
\* the indirect size; none mixes the indirect colour with the direct size.
C5_EdgeStyleOfOneLabel ==
    \A k \in 1..Len(G.edges) :
        \/ G.edges[k].attributes.color = "#ff6b6b" /\ G.edges[k].attributes.size = 2
        \/ G.edges[k].attributes.color = "#51cf66" /\ G.edges[k].attributes.size = 2
        \/ G.edges[k].attributes.color = "#888888" /\ G.edges[k].attributes.size = 1

\* C6: a lookup answered with the error object of a non-OK response ends in
\* the Transaction Not Found view.
C6_NotFoundView ==
    (~loading /\ txData = ErrorObject) => View(loading, txData) = "notfound"

\* C7: one submit answered not found, or failing, ends with result = null, an
\* error message and loading = false; one submit answered OK ends with the
\* response in result, no error and loading = false.
C7_SingleSubmitOutcome ==
    (predictSubmits = 1 /\ predictCalls = {} /\ Len(predictDone) = 1) =>
        /\ ~predictLoading
        /\ IF predictDone[1].outcome = "ok"
           THEN predictResult = TxOf(predictDone[1].id) /\ predictError = ""
           ELSE predictResult = Null /\ predictError # ""

\* the only submit has been answered not found
C7_Witness ==
    /\ predictSubmits = 1
    /\ predictCalls = {}
    /\ Len(predictDone) = 1
    /\ predictDone[1].outcome = "notfound"
    /\ predictError = PredictErrorMessage

\* the rows of the pages p..last, one page after the other
RECURSIVE pagesFrom(_, _, _)
pagesFrom(rows, p, last) ==
    IF p > last THEN <<>> ELSE currentDataOf(rows, p) \o pagesFrom(rows, p + 1, last)

\* C8: the pages 1..totalPages, read in order, are the received list: every row
\* is on exactly one page, no page holds more than 10 rows, and the rows across
\* the pages are in non-increasing risk_score order.
C8_PagesInReceivedOrder ==
    (~loadTopPending /\ homeError = "") =>
        LET shown == pagesFrom(topRisk, 1, totalPages)
        IN  /\ shown = topRisk
            /\ \A p \in 1..totalPages : Len(currentDataOf(topRisk, p)) \in 1..itemsPerPage
            /\ \A i \in 1..Len(topRisk) :
                  Cardinality({p \in 1..totalPages :
                      \E k \in 1..Len(currentDataOf(topRisk, p)) :
                          currentDataOf(topRisk, p)[k].secure_id = topRisk[i].secure_id}) = 1
            /\ \A i \in 1..(Len(shown) - 1) : shown[i].risk_score >= shown[i + 1].risk_score

\* the third, partly filled page of a list of 25 rows is shown
C8_Witness ==
    /\ Len(topRisk) = 25
    /\ currentPage = 3
    /\ Len(currentDataOf(topRisk, currentPage)) = 5
    /\ currentDataOf(topRisk, currentPage)[1].secure_id = 21

FirstNodeIndex(nodes, nid) ==
    CHOOSE i \in 1..Len(nodes) : nodes[i].id = nid /\ \A j \in 1..(i - 1) : nodes[j].id # nid

\* index of the first edge of the list with the pair (s, t)
FirstEdgeIndex(edges, s, t) ==
    CHOOSE i \in 1..Len(edges) :
        /\ edges[i].source = s /\ edges[i].target = t
        /\ \A j \in 1..(i - 1) : ~(edges[j].source = s /\ edges[j].target = t)

\* C10: a rendered node carries the attributes of the first occurrence of its id
\* in the response, a rendered edge those of the first occurrence of its pair.
C10_FirstOccurrenceWins ==
    G.built =>
        /\ \A k \in 1..Len(G.nodes) :
              LET fi == FirstNodeIndex(nodesOf(graph), G.nodes[k].id)
              IN  G.nodes[k].attributes = NodeAttributes(nodesOf(graph)[fi], fi - 1)
        /\ \A k \in 1..Len(G.edges) :
              LET fi == FirstEdgeIndex(edgesOf(graph), G.edges[k].source, G.edges[k].target)
              IN  G.edges[k].attributes = EdgeAttributes(edgesOf(graph)[fi])

\* a response whose repeated node and repeated edge differ from their first
\* occurrences has been built, edge included
C10_Witness ==
    /\ G.built
    /\ Len(G.edges) = 1
    /\ \E i, j \in 1..Len(nodesOf(graph)) :
          /\ i < j
          /\ nodesOf(graph)[i].id = nodesOf(graph)[j].id
          /\ nodesOf(graph)[i].type # nodesOf(graph)[j].type
          /\ nodesOf(graph)[i].is_flagged # nodesOf(graph)[j].is_flagged
    /\ \E i, j \in 1..Len(edgesOf(graph)) :
          /\ i < j
          /\ edgesOf(graph)[i].source = edgesOf(graph)[j].source
          /\ edgesOf(graph)[i].target = edgesOf(graph)[j].target
          /\ edgesOf(graph)[i].direction = "incoming"
          /\ edgesOf(graph)[j].direction = "indirect"

\* C11: the render step never tries to add an edge one of whose endpoints is no
\* node of the graph, so that no graph response aborts the rendering.
C11_EdgesHaveEndpoints ==
    G.built => ~G.threw

\* the response lists the center first and no other entry as a center
CenterFirst(gr) ==
    /\ Len(nodesOf(gr)) > 0
    /\ \A i \in 1..Len(nodesOf(gr)) : (nodesOf(gr)[i].type = "center") <=> (i = 1)

\* the nodes of the built graph that are not placed at the center
RenderedOthers(g) == {k \in 1..Len(g.nodes) : g.nodes[k].attributes.radius # 0}

\* C12: for a rendered response that lists its center, the footer's number of
\* connected transactions is the number of drawn nodes other than the center
\* and its number of connections is the number of drawn edges.
C12_FooterMatchesDrawn ==
    (G.built /\ ~G.threw /\ CenterFirst(graph)) =>
        /\ footerConnected(graph) = Cardinality(RenderedOthers(G))
        /\ footerConnections(graph) = Len(G.edges)

\* C13: a drawn node has the black fill of the legend's flagged wallet exactly
\* when the response marks it as flagged, whatever its type and risk.
C13_FlaggedIffBlack ==
    G.built =>
        \A k \in 1..Len(G.nodes) :
            LET n == nodesOf(graph)[FirstNodeIndex(nodesOf(graph), G.nodes[k].id)]
            IN  (G.nodes[k].attributes.color = "#000000") <=> isFlaggedOf(n)

C15_FailedFetchKeepsData ==
    [][(rejections' = rejections + 1) =>
          /\ txData' = txData
          /\ graph' = graph
          /\ G' = G
          /\ ~loading'
          /\ (txData = Null => View(loading', txData') = "notfound")
          /\ (txData # Null => View(loading', txData') = "record")]_vars

\* the fetch for depth 2 has failed after the depth-1 data of t1 was stored:
\* the page shows the record with the depth-1 graph
C15_Witness ==
    /\ rejections = 1
    /\ fetches = {}
    /\ graphDepth = 2
    /\ txData = TxOf("t1")
    /\ graph = GraphOf("t1", 1)
    /\ View(loading, txData) = "record"

\* C16: once every fetch issued has been answered successfully, the record and
\* the graph on the page are the answers for the selected id and depth.
C16_ShowsCurrentSelection ==
    (fetches = {} /\ rejections = 0) =>
        /\ txData = TxOf(id)
        /\ graph = GraphOf(id, graphDepth)

\* depths 2, 1 and 3 have been selected in turn and all four fetches answered
C16_Witness ==
    /\ issued = MaxFetches
    /\ fetches = {}
    /\ rejections = 0
    /\ id = "t2"
    /\ graphDepth = 3
    /\ graph = GraphOf("t2", 3)
    /\ G.built

\* C17: loading is true whenever a fetch for the selected id and depth is in
\* flight.
C17_LoadingWhileInFlight ==
    (\E f \in fetches : f.id = id /\ f.depth = graphDepth) => loading

\* the fetch for depth 3 is in flight while the page holds the depth-2 data
C17_Witness ==
    /\ \E f \in fetches : f.id = id /\ f.depth = 3
    /\ graphDepth = 3
    /\ graph = GraphOf(id, 2)
    /\ txData = TxOf(id)
    /\ View(loading, txData) = "loading"

\* the record and the graph are both unset, or the two answers of one fetch
FromOneFetch(txd, gr) ==
    \/ txd = Null /\ gr = Null
    \/ \E i \in TxIds, d \in DepthButtons : txd = TxOf(i) /\ gr = GraphOf(i, d)

\* C18: the record and the graph held by the page always come from one fetch;
\* a step that changes either stores both answers of one fetch that was in
\* flight, and a step in which a fetch fails changes neither.
C18_UpdatedTogether ==
    [][/\ FromOneFetch(txData', graph')
       /\ (txData' # txData \/ graph' # graph) =>
              \E f \in fetches :
                  /\ f \notin fetches'
                  /\ txData' = TxOf(f.id)
                  /\ graph' = GraphOf(f.id, f.depth)
       /\ (rejections' # rejections) => (txData' = txData /\ graph' = graph)]_vars

\* after a failed fetch for t1 the page holds record and graph of t2 at depth 2,
\* stored together by a later fetch
C18_Witness ==
    /\ rejections >= 1
    /\ id = "t2"
    /\ txData = TxOf("t2")
    /\ graph = GraphOf("t2", 2)
    /\ fetches = {}

\* the completed call of the last submit
LastSubmitDone ==
    predictDone[CHOOSE k \in 1..Len(predictDone) : predictDone[k].seq = predictSubmits]

\* C19: the predict page never holds an error message and a result together,
\* and once no call is pending it shows the outcome of the last submit: its
\* result without an error, or the error without a result.
C19_OutcomeOfLastSubmit ==
    /\ ~(predictError # "" /\ predictResult # Null)
    /\ (predictCalls = {} /\ predictSubmits > 0) =>
          IF LastSubmitDone.outcome = "ok"
          THEN predictResult = TxOf(LastSubmitDone.id) /\ predictError = ""
          ELSE predictResult = Null /\ predictError = PredictErrorMessage

\* C20: once the request of an upload has ended, whether with an answer, a
\* network failure or a body that is no JSON, loading is false again and the
\* upload button is usable.
C20_LoadingEndsWithRequest ==
    uploadCalls = {} => ~uploadLoading

\* C21: at most one upload request is in flight; no step taken while loading is
\* true, and none taken with no file selected, starts a request.
C21_OneUploadAtATime ==
    [][/\ Cardinality(uploadCalls') <= 1
       /\ uploadLoading => uploadCalls' \subseteq uploadCalls
       /\ file = Null => uploadCalls' \subseteq uploadCalls]_vars

\* a second upload is in flight after the first was answered, and the file
\* selection has been cleared meanwhile
C21_Witness ==
    /\ uploadLoading
    /\ Cardinality(uploadCalls) = 1
    /\ uploadResult.kind = "bulk"
    /\ file = Null

\* C22: currentPage is an integer from 1 to max(1, totalPages), and the page
\* shown holds at least one row whenever the list has one.
C22_CurrentPageInRange ==
    /\ currentPage \in 1..Max(1, totalPages)
    /\ Len(topRisk) > 0 => Len(currentDataOf(topRisk, currentPage)) > 0

\* the last of three pages is shown, with the single row left over from 21
C22_Witness ==
    /\ Len(topRisk) = 21
    /\ totalPages = 3
    /\ currentPage = 3
    /\ Len(currentDataOf(topRisk, currentPage)) = 1

====
